---- MODULE Spec2Model ----
(***************************************************************************)
(* termcalc (src/termcalc.c): the expression evaluator of a terminal      *)
(* calculator.  The model follows the source function by function: the    *)
(* binding table (get_var, set_var), the lexer (parse_number, next_token),*)
(* the fused recursive-descent parser/evaluator (parse_primary ..         *)
(* parse_expr), the function registry (call_func, call_func2), the        *)
(* top-level evaluate, the formatter (print_result) and the REPL step.    *)
(*                                                                         *)
(* Text is a sequence of one-character strings.  A double is a record:    *)
(* NaN, +/-Inf, or the finite value (n/d) * 2^e with n and d odd (n = 0   *)
(* for zero).  Finite values are kept exact (rounding of inexact quotients *)
(* and the sign of zero are not represented); a power with a non-integer  *)
(* exponent, or a transcendental function, is kept as an opaque value Irr.  A uint64_t is the set of    *)
(* its one bits.                                                           *)
(***************************************************************************)
EXTENDS Integers, Sequences, FiniteSets, TLC

Chars(s) == [i \in 1..Len(s) |-> SubSeq(s, i, i)]

(***************************************************************************)
(* Program constants.                                                      *)
(***************************************************************************)
MAX_VARS == 64
MAX_NAME == 32
WORD == 64
MANT == 53
DBL_MAX_EXP == 1024
DBL_MIN_EXP == -1074
INT_BITS == 31

(***************************************************************************)
(* Integer helpers.                                                        *)
(***************************************************************************)
Abs(x) == IF x < 0 THEN -x ELSE x
Min2(a, b) == IF a < b THEN a ELSE b
Max2(a, b) == IF a < b THEN b ELSE a
SetMax(S) == CHOOSE x \in S : \A y \in S : y <= x
SetMin(S) == CHOOSE x \in S : \A y \in S : x <= y

RECURSIVE Gcd(_, _)
Gcd(a, b) == IF b = 0 THEN a ELSE Gcd(b, a % b)

\* the number of factors of two of n # 0
RECURSIVE Twos(_)
Twos(n) == IF n % 2 = 1 THEN 0 ELSE 1 + Twos(n \div 2)

\* the number of bits of n > 0
RECURSIVE BitLen(_)
BitLen(n) == IF n = 0 THEN 0 ELSE 1 + BitLen(n \div 2)

\* floor(log2(n/d)) for n, d > 0
FLog2Ratio(n, d) ==
    LET k == BitLen(n) - BitLen(d)
    IN  IF k >= 0 THEN (IF n >= d * 2^k THEN k ELSE k - 1)
                  ELSE (IF n * 2^(-k) >= d THEN k ELSE k - 1)

(***************************************************************************)
(* double                                                                  *)
(***************************************************************************)
NaN == [k |-> "nan"]
Inf(s) == [k |-> "inf", s |-> s]
Irr(f, x, y) == [k |-> "irr", f |-> f, x |-> x, y |-> y]
Zero == [k |-> "fin", n |-> 0, d |-> 1, e |-> 0]

IsNaN(v) == v.k = "nan"
IsInf(v) == v.k = "inf"
IsFin(v) == v.k = "fin"
IsIrr(v) == v.k = "irr"
IsZero(v) == IsFin(v) /\ v.n = 0

\* the double nearest to (n/d) * 2^e (d # 0): lowest terms, the twos moved to
\* the exponent; overflow gives an infinity and underflow zero
Norm(n, d, e) ==
    IF n = 0 THEN Zero
    ELSE LET s  == IF (n < 0) # (d < 0) THEN -1 ELSE 1
             g  == Gcd(Abs(n), Abs(d))
             n1 == Abs(n) \div g
             d1 == Abs(d) \div g
             tn == Twos(n1)
             td == Twos(d1)
             n2 == n1 \div 2^tn
             d2 == d1 \div 2^td
             e2 == e + tn - td
             lg == e2 + FLog2Ratio(n2, d2)
         IN  IF lg >= DBL_MAX_EXP THEN Inf(s)
             ELSE IF lg < DBL_MIN_EXP THEN Zero
             ELSE [k |-> "fin", n |-> s * n2, d |-> d2, e |-> e2]

Num(i) == Norm(i, 1, 0)

Sign(v) == IF IsInf(v) THEN v.s
           ELSE IF IsFin(v) THEN (IF v.n < 0 THEN -1 ELSE IF v.n = 0 THEN 0 ELSE 1)
           ELSE 1

\* floor(log2 |v|) of a finite non-zero v
FLog2(v) == v.e + FLog2Ratio(Abs(v.n), v.d)

IsInteger(v) == IsFin(v) /\ v.d = 1 /\ (v.e >= 0 \/ v.n = 0)
IsOddInteger(v) == IsInteger(v) /\ v.e = 0 /\ v.n # 0

FNeg(v) ==
    CASE IsFin(v) -> [v EXCEPT !.n = -v.n]
      [] IsInf(v) -> Inf(-v.s)
      [] IsIrr(v) -> Irr("neg", v, Zero)
      [] OTHER    -> v

FAbs(v) == IF Sign(v) < 0 THEN FNeg(v) ELSE v

\* a + b of two finite values: a summand below a quarter of the last place of
\* the other is rounded away
AddFin(a, b) ==
    IF IsZero(a) THEN b
    ELSE IF IsZero(b) THEN a
    ELSE IF FLog2(b) + 1 <= FLog2(a) - (MANT + 1) THEN a
    ELSE IF FLog2(a) + 1 <= FLog2(b) - (MANT + 1) THEN b
    ELSE LET e0 == Min2(a.e, b.e)
         IN  Norm(a.n * 2^(a.e - e0) * b.d + b.n * 2^(b.e - e0) * a.d,
                  a.d * b.d, e0)

\* 2^k mod m, by squaring
RECURSIVE PowMod2(_, _)
Squared(h, k, m) == ((h * h) % m * (IF k % 2 = 1 THEN 2 ELSE 1)) % m
PowMod2(k, m) == IF k = 0 THEN 1 % m ELSE Squared(PowMod2(k \div 2, m), k, m)

\* fmod(a, b) of finite a and finite b # 0: the sign of a, magnitude |a| mod |b|
FmodFin(a, b) ==
    IF IsZero(a) THEN a
    ELSE IF FLog2(a) < FLog2(b) THEN a
    ELSE LET e0 == Min2(a.e, b.e)
             B  == Abs(b.n) * a.d * 2^(b.e - e0)
             A  == (((Abs(a.n) * b.d) % B) * PowMod2(a.e - e0, B)) % B
         IN  Norm(Sign(a) * A, a.d * b.d, e0)

\* x^k for a finite x # 0 and an integer k >= 0, by squaring
RECURSIVE PowNat(_, _)
PowNat(x, k) ==
    IF k = 0 THEN Num(1)
    ELSE LET h == PowNat(x, k \div 2)
             q == IF IsFin(h) THEN Norm(h.n * h.n, h.d * h.d, 2 * h.e) ELSE h
         IN  IF k % 2 = 0 \/ ~IsFin(q) THEN q
             ELSE Norm(q.n * x.n, q.d * x.d, q.e + x.e)

Recip(v) == IF IsInf(v) THEN Zero
            ELSE IF IsZero(v) THEN Inf(1)
            ELSE Norm(v.d, v.n, -v.e)

\* pow(x, y) of the C library (IEC 60559): 1 for y = 0 or x = 1 whatever the
\* other argument, NaN for any other NaN argument
FPow(x, y) ==
    IF IsZero(y) THEN Num(1)
    ELSE IF x = Num(1) THEN Num(1)
    ELSE IF IsNaN(x) \/ IsNaN(y) THEN NaN
    ELSE IF IsIrr(x) \/ IsIrr(y) THEN Irr("pow", x, y)
    ELSE IF IsInf(y) THEN
        (IF x = Num(-1) THEN Num(1)
         ELSE IF IsFin(x) /\ (IsZero(x) \/ FLog2(x) < 0)
              THEN (IF y.s > 0 THEN Zero ELSE Inf(1))
              ELSE (IF y.s > 0 THEN Inf(1) ELSE Zero))
    ELSE IF IsInf(x) THEN
        (IF Sign(y) < 0 THEN Zero
         ELSE IF x.s < 0 /\ IsOddInteger(y) THEN Inf(-1) ELSE Inf(1))
    ELSE IF IsZero(x) THEN (IF Sign(y) < 0 THEN Inf(1) ELSE Zero)
    ELSE IF ~IsInteger(y) THEN (IF Sign(x) < 0 THEN NaN ELSE Irr("pow", x, y))
    ELSE IF FLog2(y) >= INT_BITS - 1 THEN
        \* an exponent too large to count: a huge even integer
        (IF FAbs(x) = Num(1) THEN Num(1)
         ELSE IF (FLog2(x) >= 0) = (Sign(y) > 0) THEN Inf(1) ELSE Zero)
    ELSE LET k == Abs(y.n) * 2^y.e
             p == PowNat(x, k)
         IN  IF Sign(y) > 0 THEN p
             ELSE IF IsInf(p) THEN Zero
             ELSE Recip(p)

\* the arithmetic of the binary operators + - * / and fmod on doubles
FAdd(a, b) ==
    IF IsNaN(a) \/ IsNaN(b) THEN NaN
    ELSE IF IsIrr(a) \/ IsIrr(b) THEN Irr("add", a, b)
    ELSE IF IsInf(a) THEN (IF IsInf(b) /\ b.s # a.s THEN NaN ELSE a)
    ELSE IF IsInf(b) THEN b
    ELSE AddFin(a, b)

FSub(a, b) == FAdd(a, FNeg(b))

FMul(a, b) ==
    IF IsNaN(a) \/ IsNaN(b) THEN NaN
    ELSE IF IsIrr(a) \/ IsIrr(b) THEN Irr("mul", a, b)
    ELSE IF IsInf(a) \/ IsInf(b)
         THEN (IF IsZero(a) \/ IsZero(b) THEN NaN ELSE Inf(Sign(a) * Sign(b)))
    ELSE Norm(a.n * b.n, a.d * b.d, a.e + b.e)

FDiv(a, b) ==
    IF IsNaN(a) \/ IsNaN(b) THEN NaN
    ELSE IF IsIrr(a) \/ IsIrr(b) THEN Irr("div", a, b)
    ELSE IF IsInf(a) THEN (IF IsInf(b) THEN NaN
                           ELSE Inf(a.s * (IF Sign(b) < 0 THEN -1 ELSE 1)))
    ELSE IF IsInf(b) THEN Zero
    ELSE IF IsZero(b) THEN (IF IsZero(a) THEN NaN ELSE Inf(Sign(a)))
    ELSE IF IsZero(a) THEN Zero
    ELSE Norm(a.n * b.d, a.d * b.n, a.e - b.e)

FMod(a, b) ==
    IF IsNaN(a) \/ IsNaN(b) THEN NaN
    ELSE IF IsIrr(a) \/ IsIrr(b) THEN Irr("fmod", a, b)
    ELSE IF IsInf(a) \/ IsZero(b) THEN NaN
    ELSE IF IsInf(b) THEN a
    ELSE FmodFin(a, b)

(***************************************************************************)
(* uint64_t: the set of its one bits.  The conversion of a double that is  *)
(* out of the target's range, and a shift by a count outside 0..63, are    *)
(* undefined in C: `build` names the outcome the build produces.           *)
(***************************************************************************)
U64 == 0 .. (WORD - 1)
U64_MAX == U64
Builds == [cast : {"saturate", "wrap"}, shift : {"mask", "zero"}]

\* the bits of an integer 0 <= n < 2^31
BitsOf(n) == {i \in 0 .. (INT_BITS - 1) : (n \div 2^i) % 2 = 1}

\* the integer whose bits are S, divided by 2^l
RECURSIVE SumBits(_, _)
SumBits(S, l) ==
    IF S = {} THEN 0
    ELSE LET i == SetMax(S) IN 2^(i - l) + SumBits(S \ {i}, l)

\* the bits of floor(N / d), N the integer with bits NB, from bit i down to 0,
\* r the remainder carried in from the bits above i
RECURSIVE DivBits(_, _, _, _)
DivBits(NB, d, i, r) ==
    IF i < 0 THEN {}
    ELSE LET r1 == 2 * r + (IF i \in NB THEN 1 ELSE 0)
         IN  IF r1 >= d THEN {i} \cup DivBits(NB, d, i - 1, r1 - d)
                        ELSE DivBits(NB, d, i - 1, r1)

\* the bits of the integer part of |v|, for a finite v
TruncBits(v) ==
    IF IsZero(v) \/ FLog2(v) < 0 THEN {}
    ELSE IF v.e >= 0
         THEN LET NB == {i + v.e : i \in BitsOf(Abs(v.n))}
              IN  DivBits(NB, v.d, SetMax(NB), 0)
         ELSE BitsOf(Abs(v.n) \div (v.d * 2^(-v.e)))

\* b + 1 and -b modulo 2^64
U64Inc(b) == IF b = U64 THEN {}
             ELSE LET z == SetMin(U64 \ b) IN {i \in b : i > z} \cup {z}
U64Neg(b) == U64Inc(U64 \ b)

\* (uint64_t)v
ToU64(v, build) ==
    IF IsFin(v) /\ (IsZero(v) \/ FLog2(v) < 0) THEN {}
    ELSE IF IsFin(v) /\ Sign(v) > 0 /\ FLog2(v) < WORD THEN TruncBits(v)
    \* the integer part of an opaque value is not modelled
    ELSE IF IsIrr(v) THEN BitsOf(1)
    \* out of range: undefined
    ELSE IF build.cast = "saturate"
         THEN (IF IsNaN(v) \/ Sign(v) < 0 THEN {} ELSE U64_MAX)
         ELSE (IF IsNaN(v) THEN {WORD - 1}
               ELSE IF Sign(v) > 0 THEN {}
               ELSE IF IsInf(v) \/ FLog2(v) >= WORD - 1 THEN {WORD - 1}
               ELSE U64Neg(TruncBits(v)))

\* (double)b, rounded to nearest, ties to even
FromU64(b) ==
    IF b = {} THEN Zero
    ELSE LET h  == SetMax(b)
             lo == h - (MANT - 1)
             kept == {i \in b : i >= lo}
             up == /\ (lo - 1) \in b
                   /\ (lo \in b \/ \E i \in b : i < lo - 1)
             z  == SetMin((lo .. WORD) \ b)
             m  == IF up THEN {i \in kept : i > z} \cup {z} ELSE kept
             l  == SetMin(m)
         IN  Norm(SumBits(m, l), 1, l)

\* (int)v, the value of a 32-bit int
ToInt(v, build) ==
    IF IsFin(v) /\ (IsZero(v) \/ FLog2(v) < 0) THEN 0
    ELSE IF IsFin(v) /\ FLog2(v) < INT_BITS
         THEN Sign(v) * SumBits(TruncBits(v), 0)
    \* the integer part of an opaque value is not modelled
    ELSE IF IsIrr(v) THEN 1
    \* out of range: undefined
    ELSE IF build.cast = "saturate"
         THEN (IF IsNaN(v) THEN 0
               ELSE IF Sign(v) < 0 THEN (-(2^(INT_BITS - 1))) * 2
               ELSE (2^(INT_BITS - 1) - 1) * 2 + 1)
         ELSE (-(2^(INT_BITS - 1))) * 2

\* l << r and l >> r of a uint64_t l and an int r
Shl(l, r, build) ==
    IF r \in U64 THEN {i + r : i \in l} \cap U64
    ELSE IF build.shift = "mask" THEN {i + (r % WORD) : i \in l} \cap U64
    ELSE {}
Shr(l, r, build) ==
    IF r \in U64 THEN {i - r : i \in l} \cap U64
    ELSE IF build.shift = "mask" THEN {i - (r % WORD) : i \in l} \cap U64
    ELSE {}

(***************************************************************************)
(* Characters (the C locale's classes).                                    *)
(***************************************************************************)
NUL == ""
Digit == {"0", "1", "2", "3", "4", "5", "6", "7", "8", "9"}
Lower == {"a", "b", "c", "d", "e", "f", "g", "h", "i", "j", "k", "l", "m",
          "n", "o", "p", "q", "r", "s", "t", "u", "v", "w", "x", "y", "z"}
Upper == {"A", "B", "C", "D", "E", "F", "G", "H", "I", "J", "K", "L", "M",
          "N", "O", "P", "Q", "R", "S", "T", "U", "V", "W", "X", "Y", "Z"}
isspace(c) == c \in {" ", "\t", "\n", "\r", "\f"}
isdigit(c) == c \in Digit
isalpha(c) == c \in Lower \cup Upper
isalnum(c) == isalpha(c) \/ isdigit(c)

DigitVal(c) ==
    CASE c = "0" -> 0 [] c = "1" -> 1 [] c = "2" -> 2 [] c = "3" -> 3
      [] c = "4" -> 4 [] c = "5" -> 5 [] c = "6" -> 6 [] c = "7" -> 7
      [] c = "8" -> 8 [] c = "9" -> 9
      [] c \in {"a", "A"} -> 10 [] c \in {"b", "B"} -> 11
      [] c \in {"c", "C"} -> 12 [] c \in {"d", "D"} -> 13
      [] c \in {"e", "E"} -> 14 [] c \in {"f", "F"} -> 15
      [] OTHER -> 99

\* the character at offset i of the NUL-terminated text (offsets from 1)
At(src, i) == IF i \in 1 .. Len(src) THEN src[i] ELSE NUL

\* the first offset from i on whose character is not in the class; the NUL
\* that ends the text is in none
SkipSpace(src, i) ==
    IF i > Len(src) THEN i
    ELSE SetMin({j \in i .. (Len(src) + 1) : ~isspace(At(src, j))})

SkipDigits(src, i, base) ==
    IF i > Len(src) THEN i
    ELSE SetMin({j \in i .. (Len(src) + 1) : DigitVal(At(src, j)) >= base})

\* the number the digits at offsets i .. j-1 spell in the base
RECURSIVE DigitsVal(_, _, _, _)
DigitsVal(src, i, j, base) ==
    IF j <= i THEN 0
    ELSE DigitsVal(src, i, j - 1, base) * base + DigitVal(At(src, j - 1))

\* strtoull(src + i, &end, base) for base 8 or 16: white space, a sign, for
\* base 16 a 0x prefix, then digits; with no digit nothing is converted and
\* end is the start (after a bare 0x prefix: the 0 is converted)
strtoull(src, i, base) ==
    LET a == SkipSpace(src, i)
        neg == At(src, a) = "-"
        b == IF At(src, a) \in {"+", "-"} THEN a + 1 ELSE a
        pfx == base = 16 /\ At(src, b) = "0" /\ At(src, b + 1) \in {"x", "X"}
        c == IF pfx THEN b + 2 ELSE b
        end == SkipDigits(src, c, base)
        bits == BitsOf(DigitsVal(src, c, end, base))
    IN  IF end = c
        THEN [end |-> IF pfx THEN b + 1 ELSE i, val |-> {}]
        ELSE [end |-> end, val |-> IF neg THEN U64Neg(bits) ELSE bits]

\* 10^k scaling of an integer mantissa
Dec(m, k) == IF k >= 0 THEN Norm(m * 5^k, 1, k) ELSE Norm(m, 5^(-k), k)

\* strtod(src + i, &end) at a digit, or at a point before a digit: digits, a
\* fraction, and an exponent when digits follow the e
strtod(src, i) ==
    LET a == SkipDigits(src, i, 10)
        b == IF At(src, a) = "." THEN SkipDigits(src, a + 1, 10) ELSE a
        frac == IF b > a THEN b - a - 1 ELSE 0
        mant == DigitsVal(src, i, a, 10) * 10^frac
                + (IF b > a THEN DigitsVal(src, a + 1, b, 10) ELSE 0)
        s == IF At(src, b) \in {"e", "E"} /\ At(src, b + 1) \in {"+", "-"}
             THEN b + 2 ELSE b + 1
        c == IF At(src, b) \in {"e", "E"} THEN SkipDigits(src, s, 10) ELSE b
        hasexp == At(src, b) \in {"e", "E"} /\ c > s
        ex == IF ~hasexp THEN 0
              ELSE IF At(src, b + 1) = "-" THEN -DigitsVal(src, s, c, 10)
              ELSE DigitsVal(src, s, c, 10)
    IN  [end |-> IF hasexp THEN c ELSE b, val |-> Dec(mant, ex - frac)]

(***************************************************************************)
(* Variable storage: vars is the table, var_count its length.              *)
(***************************************************************************)
PI == Irr("pi", Zero, Zero)
E == Irr("e", Zero, Zero)
KiB == Norm(1, 1, 10)
MiB == Norm(1, 1, 20)
GiB == Norm(1, 1, 30)
TiB == Norm(1, 1, 40)
KB == Dec(1, 3)
MB == Dec(1, 6)
GB == Dec(1, 9)
TB == Dec(1, 12)

var_count(vars) == Len(vars)

\* the least index of a binding of the name, 0 when there is none
Lookup(vars, name) ==
    IF \E i \in 1 .. Len(vars) : vars[i].name = name
    THEN SetMin({i \in 1 .. Len(vars) : vars[i].name = name})
    ELSE 0

\* get_var: the value, and what it writes to stderr
\* get_var after the loop over the user variables: the built-in constants,
\* with ans as the first slot, or the diagnostic
builtin(vars, name) ==
    LET is(a, b) == name = Chars(a) \/ name = Chars(b)
        ret(v) == [val |-> v, err |-> <<>>]
    IN  IF is("pi", "PI") THEN ret(PI)
        ELSE IF is("e", "E") THEN ret(E)
        ELSE IF name = Chars("ans")
             THEN ret(IF var_count(vars) > 0 THEN vars[1].value ELSE Zero)
        ELSE IF is("KiB", "kib") THEN ret(KiB)
        ELSE IF is("MiB", "mib") THEN ret(MiB)
        ELSE IF is("GiB", "gib") THEN ret(GiB)
        ELSE IF is("TiB", "tib") THEN ret(TiB)
        ELSE IF is("KB", "kb") THEN ret(KB)
        ELSE IF is("MB", "mb") THEN ret(MB)
        ELSE IF is("GB", "gb") THEN ret(GB)
        ELSE IF is("TB", "tb") THEN ret(TB)
        ELSE [val |-> NaN, err |-> <<<<"undefined", name>>>>]

\* get_var with the built-in constants checked before the user variables
get_var_builtin_first(vars, name) ==
    LET i == Lookup(vars, name)
        b == builtin(vars, name)
    IN  IF b.err = <<>> THEN b
        ELSE IF i > 0 THEN [val |-> vars[i].value, err |-> <<>>]
        ELSE b

get_var(vars, name) ==
    LET i == Lookup(vars, name)
    IN  IF i > 0 THEN [val |-> vars[i].value, err |-> <<>>]
        ELSE builtin(vars, name)

\* set_var without the search for an existing binding
set_var_append(vars, name, value) ==
    IF var_count(vars) < MAX_VARS
    THEN Append(vars, [name  |-> SubSeq(name, 1, Min2(Len(name), MAX_NAME - 1)),
                       value |-> value])
    ELSE vars

\* set_var without the test var_count < MAX_VARS
set_var_uncapped(vars, name, value) ==
    LET i == Lookup(vars, name)
    IN  IF i > 0 THEN [vars EXCEPT ![i].value = value]
        ELSE Append(vars, [name  |-> SubSeq(name, 1, Min2(Len(name), MAX_NAME - 1)),
                           value |-> value])

\* set_var: the table after the call
set_var(vars, name, value) ==
    LET i == Lookup(vars, name)
    IN  IF i > 0 THEN [vars EXCEPT ![i].value = value]
        ELSE IF var_count(vars) < MAX_VARS
             THEN Append(vars, [name  |-> SubSeq(name, 1, Min2(Len(name), MAX_NAME - 1)),
                                value |-> value])
        ELSE vars

(***************************************************************************)
(* Tokenizer.  A parser p is the text, the offset pos of the next          *)
(* character, the current token cur, and with them the globals the parse   *)
(* reads and writes (fmt: g_output_fmt, err: stderr, vars) and counters     *)
(* that observe the run: ntok calls of next_token, nprim calls of          *)
(* parse_primary, start the offset at which cur began, adv whether every   *)
(* consumed operator moved start forward, mono whether no next_token moved *)
(* pos back, back the rollbacks of evaluate, sel the formats the selectors  *)
(* executed set, lhs the name evaluate assigned to, div whether the call   *)
(* budget ran out, toks the tokens lexed, calls the function calls made    *)
(* and ops the arithmetic operators applied, in order.                      *)
(***************************************************************************)
Tok(type) == [type |-> type, num |-> Zero, id |-> <<>>, op |-> NUL]
OpTok(c) == [Tok("OP") EXCEPT !.op = c]

skip_ws(p) == [p EXCEPT !.pos = SkipSpace(p.src, p.pos)]

\* the value of binary digits at offsets i .. j-1, shifted in from the right
BinBits(src, i, j) == {j - 1 - k : k \in {k \in i .. (j - 1) : src[k] = "1"}} \cap U64

\* the NUM token parse_number fills: the value v, the cursor moved to end
number(p, end, v) ==
    [ok |-> TRUE, p |-> [p EXCEPT !.pos = end, !.cur.num = v, !.cur.type = "NUM"]]

\* a prefix without digits handed to the decimal parse
prefix_fallthrough(p) ==
    LET r == strtod(p.src, p.pos)
    IN  [ok |-> TRUE,
         p  |-> [p EXCEPT !.pos = r.end, !.cur.num = r.val, !.cur.type = "NUM"]]

\* if (end == p->pos) { p->pos = start; return false; }
prefix_fail(p) == [ok |-> FALSE, p |-> p]

\* p->pos += 2, then r = strtoull(p->pos, &end, base)
converted(p, r) ==
    IF r.end = p.pos + 2 THEN prefix_fail(p) ELSE number(p, r.end, FromU64(r.val))

\* p->pos += 2, then the loop over the binary digits, which stops at end
binary(p, end) == number(p, end, FromU64(BinBits(p.src, p.pos + 2, end)))

\* r = strtod(p->pos, &end)
decimal(p, r) == number(p, r.end, r.val)

parse_number(p) ==
    LET c0 == At(p.src, p.pos)
        prefix == At(p.src, p.pos + 1)
    IN  IF c0 = "0" /\ prefix # NUL /\ prefix \in {"x", "X"}
        THEN converted(p, strtoull(p.src, p.pos + 2, 16))
        ELSE IF c0 = "0" /\ prefix # NUL /\ prefix \in {"b", "B"}
        THEN binary(p, SkipDigits(p.src, p.pos + 2, 2))
        ELSE IF c0 = "0" /\ prefix # NUL /\ prefix \in {"o", "O"}
        THEN converted(p, strtoull(p.src, p.pos + 2, 8))
        ELSE IF isdigit(c0) \/ (c0 = "." /\ isdigit(prefix))
        THEN decimal(p, strtod(p.src, p.pos))
        ELSE [ok |-> FALSE, p |-> p]

SkipIdent(src, i) ==
    IF i > Len(src) THEN i
    ELSE SetMin({j \in i .. (Len(src) + 1) : ~(isalnum(At(src, j)) \/ At(src, j) = "_")})

\* the character read without the increment
advance_stuck(p) == p

\* char c = *p->pos++
advance(p) == [p EXCEPT !.pos = p.pos + 1]

\* next_token after skip_ws and the call of parse_number, which returned n
lex_token(p, n) ==
    LET c == At(p.src, p.pos)
        q == advance(p)
        two(d, op) == IF At(q.src, q.pos) = d
                      THEN [q EXCEPT !.pos = q.pos + 1, !.cur = OpTok(op)]
                      ELSE [q EXCEPT !.cur = Tok("ERR")]
    IN  IF c = NUL THEN [p EXCEPT !.cur = Tok("END")]
        ELSE IF n.ok THEN n.p
        ELSE IF isalpha(c) \/ c = "_"
        THEN LET end == Min2(SkipIdent(p.src, p.pos), p.pos + MAX_NAME - 1)
             IN  [p EXCEPT !.pos = end, !.cur.type = "ID",
                           !.cur.id = SubSeq(p.src, p.pos, end - 1)]
        ELSE IF c = "(" THEN [q EXCEPT !.cur = Tok("LPAREN")]
        ELSE IF c = ")" THEN [q EXCEPT !.cur = Tok("RPAREN")]
        ELSE IF c \in {"+", "-", "/", "%", "=", "&", "|", "~", ","}
        THEN [q EXCEPT !.cur = OpTok(c)]
        ELSE IF c = "<" THEN two("<", "L")
        ELSE IF c = ">" THEN two(">", "R")
        ELSE IF c = "*"
        THEN (IF At(q.src, q.pos) = "*"
              THEN [q EXCEPT !.pos = q.pos + 1, !.cur = OpTok("^")]
              ELSE [q EXCEPT !.cur = OpTok("*")])
        ELSE IF c = "^" THEN [q EXCEPT !.cur = OpTok("^")]
        ELSE [q EXCEPT !.cur = Tok("ERR")]

\* next_token after skip_ws
Lex(p) == lex_token(p, parse_number(p))

\* the parser r that next_token returns when called on p, with the counters
\* of the run; w is p after skip_ws
lexed(p, w, r) ==
    [r EXCEPT !.ntok = p.ntok + 1,
              !.start = w.pos,
              !.adv = p.adv /\ w.pos > p.start,
              !.toks = Append(p.toks, [type |-> r.cur.type, start |-> w.pos,
                                       end |-> r.pos, id |-> r.cur.id,
                                       num |-> r.cur.num, op |-> r.cur.op]),
              !.mono = p.mono /\ r.pos >= p.pos]
lex_at(p, w) == lexed(p, w, Lex(w))

next_token(p) == lex_at(p, skip_ws(p))

(***************************************************************************)
(* Built-in functions.  Each returns its value, the output format it sets  *)
(* ("" for none) and what it writes to stderr.                             *)
(***************************************************************************)
\* a < b for values that are neither NaN nor opaque
FLess(a, b) == Sign(FSub(a, b)) < 0 /\ a # b

\* the integer part of |v| as a double, for a finite v below 2^31
TruncAbs(v) == Num(SumBits(TruncBits(v), 0))

Floor(v) ==
    IF ~IsFin(v) \/ IsInteger(v) THEN v
    ELSE IF Sign(v) > 0 THEN TruncAbs(v) ELSE FNeg(FAdd(TruncAbs(v), Num(1)))
Ceil(v) == FNeg(Floor(FNeg(v)))
\* round: halfway cases away from zero
Round(v) ==
    IF ~IsFin(v) \/ IsInteger(v) THEN v
    ELSE LET t == TruncAbs(v)
             r == IF FLess(FSub(FAbs(v), t), Norm(1, 2, 0)) THEN t ELSE FAdd(t, Num(1))
         IN  IF Sign(v) < 0 THEN FNeg(r) ELSE r

\* a library function whose value the model keeps opaque
Math1(f, arg) == IF IsNaN(arg) THEN NaN ELSE Irr(f, arg, Zero)

\* (uintN_t)~(uintN_t)arg
NotN(w, arg, build) == FromU64((0 .. (w - 1)) \ ToU64(arg, build))

\* __builtin_clzll and __builtin_ctzll: undefined at 0
Clz(b, build) == IF b # {} THEN WORD - 1 - SetMax(b)
                 ELSE IF build.cast = "saturate" THEN WORD ELSE WORD - 1
Ctz(b, build) == IF b # {} THEN SetMin(b)
                 ELSE IF build.cast = "saturate" THEN WORD ELSE 0

Names1 == {"sin", "cos", "tan", "asin", "acos", "atan", "sinh", "cosh", "tanh",
           "exp", "log", "log10", "log2", "sqrt", "cbrt", "ln"}

call_func2(name, arg1, arg2, build) ==
    LET is(a) == name = Chars(a)
        u1 == ToU64(arg1, build)
        u2 == ToU64(arg2, build)
    IN  IF is("bxor") THEN FromU64((u1 \ u2) \cup (u2 \ u1))
        ELSE IF is("band") THEN FromU64(u1 \cap u2)
        ELSE IF is("bor") THEN FromU64(u1 \cup u2)
        ELSE IF is("shl") THEN FromU64(Shl(u1, ToInt(arg2, build), build))
        ELSE IF is("shr") THEN FromU64(Shr(u1, ToInt(arg2, build), build))
        ELSE IF is("pow") THEN FPow(arg1, arg2)
        ELSE IF is("mod") THEN FMod(arg1, arg2)
        ELSE IF is("atan2")
             THEN (IF IsNaN(arg1) \/ IsNaN(arg2) THEN NaN ELSE Irr("atan2", arg1, arg2))
        ELSE IF is("max") \/ is("min")
             THEN (IF IsNaN(arg1) THEN arg2
                   ELSE IF IsNaN(arg2) THEN arg1
                   ELSE IF IsIrr(arg1) \/ IsIrr(arg2) THEN Irr(name, arg1, arg2)
                   ELSE IF FLess(arg1, arg2) = is("max") THEN arg2 ELSE arg1)
        ELSE NaN

call_func(name, arg, build) ==
    LET is(a) == name = Chars(a)
        ret(v) == [val |-> v, fmt |-> "", err |-> <<>>]
        sel(f) == [val |-> arg, fmt |-> f, err |-> <<>>]
        u == ToU64(arg, build)
    IN  IF \E f \in Names1 : is(f)
        THEN ret(Math1(CHOOSE f \in Names1 : is(f), arg))
        ELSE IF is("abs") THEN ret(FAbs(arg))
        ELSE IF is("floor") THEN ret(Floor(arg))
        ELSE IF is("ceil") THEN ret(Ceil(arg))
        ELSE IF is("round") THEN ret(Round(arg))
        ELSE IF is("bnot") THEN ret(FromU64(U64 \ u))
        ELSE IF is("not8") THEN ret(NotN(8, arg, build))
        ELSE IF is("not16") THEN ret(NotN(16, arg, build))
        ELSE IF is("not32") THEN ret(NotN(32, arg, build))
        ELSE IF is("hex") THEN sel("FMT_HEX")
        ELSE IF is("bin") THEN sel("FMT_BIN")
        ELSE IF is("oct") THEN sel("FMT_OCT")
        ELSE IF is("dec") THEN sel("FMT_DEC")
        ELSE IF is("toKiB") \/ is("tokib") THEN ret(FDiv(arg, KiB))
        ELSE IF is("toMiB") \/ is("tomib") THEN ret(FDiv(arg, MiB))
        ELSE IF is("toGiB") \/ is("togib") THEN ret(FDiv(arg, GiB))
        ELSE IF is("toTiB") \/ is("totib") THEN ret(FDiv(arg, TiB))
        ELSE IF is("toKB") \/ is("tokb") THEN ret(FDiv(arg, KB))
        ELSE IF is("toMB") \/ is("tomb") THEN ret(FDiv(arg, MB))
        ELSE IF is("toGB") \/ is("togb") THEN ret(FDiv(arg, GB))
        ELSE IF is("toTB") \/ is("totb") THEN ret(FDiv(arg, TB))
        ELSE IF is("popcount") THEN ret(Num(Cardinality(u)))
        ELSE IF is("clz") THEN ret(IF IsZero(arg) THEN Num(WORD) ELSE Num(Clz(u, build)))
        ELSE IF is("ctz") THEN ret(IF IsZero(arg) THEN Num(WORD) ELSE Num(Ctz(u, build)))
        ELSE [val |-> NaN, fmt |-> "", err |-> <<<<"unknown function", name>>>>]

(***************************************************************************)
(* Recursive descent parser.  Every function takes the parser and returns  *)
(* it with the value of what it parsed in val.  The recursion is given a   *)
(* budget of Budget(src) calls of parse_primary; div records that it ran   *)
(* out, and ends the descent.                                               *)
(***************************************************************************)
Budget(src) == Len(src) + 1

\* p->cur.type == TOK_OP && p->cur.op is one of ops
IsOp(p, ops) == p.cur.type = "OP" /\ p.cur.op \in ops

\* the effect on the parser of call_func returning f
returned(p, name, f) ==
    [p EXCEPT !.val = f.val,
              !.fmt = IF f.fmt = "" THEN @ ELSE f.fmt,
              !.sel = IF f.fmt = "" THEN @ ELSE Append(@, f.fmt),
              !.err = @ \o f.err,
              !.calls = Append(@, [name |-> name, args |-> 1, val |-> f.val,
                                   err |-> f.err])]
apply_func(p, name, arg) == returned(p, name, call_func(name, arg, p.build))

\* the effect on the parser of call_func2 returning v
returned2(p, name, v) ==
    [p EXCEPT !.val = v,
              !.calls = Append(@, [name |-> name, args |-> 2, val |-> v, err |-> <<>>])]
apply_func2(p, name, arg1, arg2) ==
    returned2(p, name, call_func2(name, arg1, arg2, p.build))

\* the effect on the parser p, which parsed the right operand, of a binary
\* arithmetic operator with operands l and r and result v
computed(p, op, l, r, v) ==
    [p EXCEPT !.val = v, !.ops = Append(@, [op |-> op, l |-> l, r |-> r, v |-> v])]

RECURSIVE parse_primary(_), parse_expr(_)

\* return -parse_primary(p); return parse_primary(p)
signed(op, r) == [r EXCEPT !.val = IF op = "-" THEN FNeg(r.val) ELSE r.val]

\* return (double)(~(uint64_t)parse_primary(p))
complemented(r) == [r EXCEPT !.val = FromU64(U64 \ ToU64(r.val, r.build))]

\* return get_var(name)
variable(q, g) == [q EXCEPT !.val = g.val, !.err = @ \o g.err]

\* if (p->cur.type == TOK_RPAREN) next_token(p), q being what next_token
\* returns
closed(p, q) == IF p.cur.type = "RPAREN" THEN [q EXCEPT !.val = p.val] ELSE p

\* a group after its expression, parsed by r
group(r) == IF r.div THEN r ELSE closed(r, next_token(r))

\* a function call after its arguments: the first parsed by a1, and after a
\* comma the second parsed by a2
call(name, a1, a2) ==
    IF a1.cur.type = "OP" /\ a1.cur.op = ","
    THEN apply_func2(closed(a2, next_token(a2)), name, a1.val, a2.val)
    ELSE apply_func(closed(a1, next_token(a1)), name, a1.val)
arguments(name, a1) == call(name, a1, parse_expr(next_token(a1)))

\* parse_primary within the budget; q is what next_token returns on p, which
\* every case but the syntax error calls first
primary(p, q) ==
    LET cur == p.cur
    IN  CASE cur.type = "OP" /\ cur.op \in {"-", "+"} ->
                 signed(cur.op, parse_primary(q))
          [] cur.type = "OP" /\ cur.op = "~" ->
                 complemented(parse_primary(q))
          [] cur.type = "LPAREN" ->
                 group(parse_expr(q))
          [] cur.type = "NUM" ->
                 [q EXCEPT !.val = cur.num]
          [] cur.type = "ID" /\ q.cur.type = "LPAREN" ->
                 arguments(cur.id, parse_expr(next_token(q)))
          [] cur.type = "ID" ->
                 variable(q, get_var(q.vars, cur.id))
          [] OTHER ->
                 [p EXCEPT !.val = NaN, !.err = Append(@, <<"syntax error">>)]

parse_primary(p) ==
    IF p.nprim >= Budget(p.src) THEN [p EXCEPT !.div = TRUE, !.val = NaN]
    ELSE primary([p EXCEPT !.nprim = @ + 1], next_token([p EXCEPT !.nprim = @ + 1]))

\* return pow(left, right), right being the parse of the right operand
power(left, right) == computed(right, "^", left, right.val, FPow(left, right.val))

\* power as a left-associative loop
RECURSIVE power_loop_left(_)
power_loop_left(p) ==
    IF p.div THEN p
    ELSE IF IsOp(p, {"^"}) THEN power_loop_left(power(p.val, parse_primary(next_token(p))))
    ELSE p
parse_power_left(p) == power_loop_left(parse_primary(p))

\* double left = parse_primary(p); if the operator is ^, consume it and
\* return pow(left, parse_power(p))
RECURSIVE parse_power(_)
power_rest(left) ==
    IF left.div THEN left
    ELSE IF IsOp(left, {"^"}) THEN power(left.val, parse_power(next_token(left)))
    ELSE left
parse_power(p) == power_rest(parse_primary(p))

\* The loops of the left-associative levels.  X_operand(left, op, p) parses
\* at p the operand of op, whose left operand has the value left (the first
\* operand of the level when op is NUL); X_loop(left, op, right) is what
\* follows the parse right of that operand: the body X(left, op, right) of
\* the loop, which leaves the first operand unchanged, and then X_test, the
\* test of the while.  A descent that ran out of its budget (div) takes no
\* further turn.
term(left, op, right) ==
    CASE op = NUL -> right
      [] op = "*" -> computed(right, op, left, right.val, FMul(left, right.val))
      [] op = "/" -> computed(right, op, left, right.val, FDiv(left, right.val))
      [] op = "%" -> computed(right, op, left, right.val, FMod(left, right.val))
RECURSIVE term_operand(_, _, _)
term_test(p) ==
    IF IsOp(p, {"*", "/", "%"}) THEN term_operand(p.val, p.cur.op, next_token(p)) ELSE p
term_loop(left, op, right) ==
    IF right.div THEN right ELSE term_test(term(left, op, right))
term_operand(left, op, p) == term_loop(left, op, parse_power(p))
parse_term(p) == term_operand(NaN, NUL, p)

additive(left, op, right) ==
    CASE op = NUL -> right
      [] op = "+" -> computed(right, op, left, right.val, FAdd(left, right.val))
      [] op = "-" -> computed(right, op, left, right.val, FSub(left, right.val))
RECURSIVE additive_operand(_, _, _)
additive_test(p) ==
    IF IsOp(p, {"+", "-"}) THEN additive_operand(p.val, p.cur.op, next_token(p)) ELSE p
additive_loop(left, op, right) ==
    IF right.div THEN right ELSE additive_test(additive(left, op, right))
additive_operand(left, op, p) == additive_loop(left, op, parse_term(p))
parse_additive(p) == additive_operand(NaN, NUL, p)

\* uint64_t l = (uint64_t)left; int r = (int)right;
\* left = (op == 'L') ? (double)(l << r) : (double)(l >> r)
shift(left, op, right) ==
    CASE op = NUL -> right
      [] op = "L" -> [right EXCEPT !.val =
                         FromU64(Shl(ToU64(left, right.build),
                                     ToInt(right.val, right.build), right.build))]
      [] op = "R" -> [right EXCEPT !.val =
                         FromU64(Shr(ToU64(left, right.build),
                                     ToInt(right.val, right.build), right.build))]
RECURSIVE shift_operand(_, _, _)
shift_test(p) ==
    IF IsOp(p, {"L", "R"}) THEN shift_operand(p.val, p.cur.op, next_token(p)) ELSE p
shift_loop(left, op, right) ==
    IF right.div THEN right ELSE shift_test(shift(left, op, right))
shift_operand(left, op, p) == shift_loop(left, op, parse_additive(p))
parse_shift(p) == shift_operand(NaN, NUL, p)

\* left = (double)((uint64_t)left & (uint64_t)right)
bitand(left, op, right) ==
    CASE op = NUL -> right
      [] op = "&" -> [right EXCEPT !.val =
                         FromU64(ToU64(left, right.build)
                                     \cap ToU64(right.val, right.build))]
RECURSIVE bitand_operand(_, _, _)
bitand_test(p) ==
    IF IsOp(p, {"&"}) THEN bitand_operand(p.val, p.cur.op, next_token(p)) ELSE p
bitand_loop(left, op, right) ==
    IF right.div THEN right ELSE bitand_test(bitand(left, op, right))
bitand_operand(left, op, p) == bitand_loop(left, op, parse_shift(p))
parse_bitand(p) == bitand_operand(NaN, NUL, p)

\* left = (double)((uint64_t)left | (uint64_t)right)
bitor(left, op, right) ==
    CASE op = NUL -> right
      [] op = "|" -> [right EXCEPT !.val =
                         FromU64(ToU64(left, right.build)
                                     \cup ToU64(right.val, right.build))]
RECURSIVE bitor_operand(_, _, _)
bitor_test(p) ==
    IF IsOp(p, {"|"}) THEN bitor_operand(p.val, p.cur.op, next_token(p)) ELSE p
bitor_loop(left, op, right) ==
    IF right.div THEN right ELSE bitor_test(bitor(left, op, right))
bitor_operand(left, op, p) == bitor_loop(left, op, parse_bitand(p))
parse_bitor(p) == bitor_operand(NaN, NUL, p)

parse_expr(p) == parse_bitor(p)

(***************************************************************************)
(* Top level: assignment or expression.                                    *)
(***************************************************************************)
\* evaluate without the reset: the format of the last expression stays
reset_format_keep(fmt) == fmt

\* g_output_fmt = FMT_DEC: reset format for each expression
reset_format(fmt) == "FMT_DEC"

\* Parser p = {.src = input, .pos = input}, beside the globals
NewParser(input, vars, fmt, build) ==
    [src |-> input, pos |-> 1, cur |-> Tok("NUM"), val |-> Zero,
     fmt |-> fmt, err |-> <<>>, vars |-> vars, build |-> build,
     ntok |-> 0, nprim |-> 0, start |-> 0, adv |-> TRUE, mono |-> TRUE,
     sel |-> <<>>, div |-> FALSE, back |-> 0, lhs |-> <<>>,
     toks |-> <<>>, calls |-> <<>>, ops |-> <<>>]

\* not assignment, backtrack: p.pos = saved_pos; p.cur = saved_tok
backtrack(p, q) ==
    [q EXCEPT !.pos = p.pos, !.cur = p.cur, !.start = p.start, !.back = @ + 1]

\* the parser at the expression to parse and the name it is assigned to
\* (none: <<>>); p is the parser at the first token, q at the second
lookahead(p, q) ==
    IF q.cur.type = "OP" /\ q.cur.op = "="
    THEN [p |-> next_token(q), name |-> p.cur.id]
    ELSE [p |-> backtrack(p, q), name |-> <<>>]
target(p) ==
    IF p.cur.type = "ID" THEN lookahead(p, next_token(p)) ELSE [p |-> p, name |-> <<>>]

\* set_var(name, val) after the parse r of the right-hand side
assigned(name, r) ==
    IF name = <<>> THEN r
    ELSE [r EXCEPT !.vars = set_var(r.vars, name, r.val), !.lhs = name]

evaluate_at(t) == assigned(t.name, parse_expr(t.p))

evaluate(input, vars, fmt, build) ==
    evaluate_at(target(next_token(NewParser(input, vars, reset_format(fmt), build))))

(***************************************************************************)
(* Output formatting.  What print_result writes to stdout is a record: the *)
(* conversion used and the text, <<>> when nothing is printed.  The text   *)
(* of %.12g is not modelled: the record carries the value instead.         *)
(***************************************************************************)
DigitChar(i) == CASE i = 0 -> "0" [] i = 1 -> "1" [] i = 2 -> "2" [] i = 3 -> "3"
                  [] i = 4 -> "4" [] i = 5 -> "5" [] i = 6 -> "6" [] i = 7 -> "7"
                  [] i = 8 -> "8" [] i = 9 -> "9" [] i = 10 -> "A" [] i = 11 -> "B"
                  [] i = 12 -> "C" [] i = 13 -> "D" [] i = 14 -> "E" [] i = 15 -> "F"

\* the digits of the uint64_t b in base 2^w, without leading zeros: digit i
\* is the value of the bits w*i .. w*i + w - 1
GroupDigit(b, w, i) ==
    DigitChar(SumBits({j \in b : j \in (w * i) .. (w * i + w - 1)}, w * i))
Digits2w(b, w) ==
    IF b = {} THEN <<"0">>
    ELSE [k \in 1 .. (SetMax(b) \div w + 1) |-> GroupDigit(b, w, SetMax(b) \div w + 1 - k)]

\* the decimal digits (least significant first) of twice the number ds, plus c
RECURSIVE Twice(_, _)
Twice(ds, c) ==
    IF ds = <<>> THEN (IF c = 0 THEN <<>> ELSE <<c>>)
    ELSE LET t == 2 * Head(ds) + c IN <<t % 10>> \o Twice(Tail(ds), t \div 10)
RECURSIVE DecLsd(_)
DecLsd(n) == IF n < 10 THEN <<n>> ELSE <<n % 10>> \o DecLsd(n \div 10)
RECURSIVE TimesPow2(_, _)
TimesPow2(ds, e) == IF e = 0 THEN ds ELSE TimesPow2(Twice(ds, 0), e - 1)
Reverse(q) == [i \in 1 .. Len(q) |-> q[Len(q) + 1 - i]]

\* %.0f of an integer-valued double
IntText(v) ==
    LET ds == Reverse(TimesPow2(DecLsd(Abs(v.n)), v.e))
        tx == [i \in 1 .. Len(ds) |-> DigitChar(ds[i])]
    IN  IF v.n < 0 THEN <<"-">> \o tx ELSE tx

\* fabs(val) < 1e15 for an integer-valued double: 1e15 = 5^7 * 5^8 * 2^15
Below1e15(v) ==
    \/ IsZero(v)
    \/ FLog2(v) < 49
    \/ /\ FLog2(v) = 49
       /\ SumBits(TruncBits(Norm(Abs(v.n), 5^7, v.e - 15)), 0) < 5^8

print_binary(b) == <<"0", "b">> \o Digits2w(b, 1)

print_result(val, fmt, build) ==
    LET u == ToU64(val, build)
        wr(conv, text) == [conv |-> conv, text |-> text, val |-> val]
    IN  IF IsNaN(val) THEN wr("", <<>>)
        ELSE IF fmt = "FMT_HEX" THEN wr("0x%PRIX64", <<"0", "x">> \o Digits2w(u, 4))
        ELSE IF fmt = "FMT_BIN" THEN wr("0b%s", print_binary(u))
        ELSE IF fmt = "FMT_OCT" THEN wr("0o%PRIo64", <<"0", "o">> \o Digits2w(u, 3))
        ELSE IF IsInteger(val) /\ Below1e15(val) THEN wr("%.0f", IntText(val))
        ELSE wr("%.12g", <<>>)

(***************************************************************************)
(* The program: its globals vars and g_output_fmt, the build it was        *)
(* compiled by, and what the last call of evaluate was given and did       *)
(* (input, result, out on stdout, err on stderr, the run's counters obs,   *)
(* the table before it in last), the call before it in prev, and the       *)
(* number n of calls so far.                                                *)
(***************************************************************************)
VARIABLES vars, g_output_fmt, build, input, result, out, err, obs, last, prev, n

state == <<vars, g_output_fmt, build, input, result, out, err, obs, last, prev, n>>

\* bounds of the sessions explored
MaxEvals == 3
Room == 1

None == [input |-> <<>>, vars0 |-> <<>>, result |-> Zero, lhs |-> <<>>]
NoObs == [ntok |-> 0, nprim |-> 0, adv |-> TRUE, mono |-> TRUE, div |-> FALSE,
          back |-> 0, sel |-> <<>>, pos |-> 1, cur |-> "NUM", fmt0 |-> "FMT_DEC",
          toks |-> <<>>, calls |-> <<>>, ops |-> <<>>]

Observe(r, fmt0) ==
    [ntok |-> r.ntok, nprim |-> r.nprim, adv |-> r.adv, mono |-> r.mono,
     div |-> r.div, back |-> r.back, sel |-> r.sel, pos |-> r.pos,
     cur |-> r.cur.type, fmt0 |-> fmt0, toks |-> r.toks, calls |-> r.calls,
     ops |-> r.ops]

\* double result = evaluate(expr); print_result(result);  (main, and the REPL
\* before it stores the answer)
Ran(line, store, r) ==
    /\ vars' = IF store THEN set_var(r.vars, Chars("ans"), r.val) ELSE r.vars
    /\ g_output_fmt' = r.fmt
    /\ result' = r.val
    /\ out' = print_result(r.val, r.fmt, build)
    /\ err' = r.err
    /\ obs' = Observe(r, g_output_fmt)
    /\ input' = line
    /\ last' = [input |-> line, vars0 |-> vars, result |-> r.val, lhs |-> r.lhs]
    /\ prev' = last
    /\ n' = n + 1
    /\ UNCHANGED build
Run(line, store) == Ran(line, store, evaluate(line, vars, g_output_fmt, build))

\* the lines v1 = 0, v2 = 0, ... that fill the table
RECURSIVE DecText(_)
DecText(k) == IF k < 10 THEN <<DigitChar(k)>>
              ELSE DecText(k \div 10) \o <<DigitChar(k % 10)>>
FillLine(k) == <<"v">> \o DecText(k) \o Chars(" = 0")

\* the table after evaluating the lines FillLine(k) .. FillLine(upto) (the
\* first half of them, then the second), each followed by the REPL's store
\* of the answer when store; the script stops once the table leaves no more
\* than Room free slots
Stored(r, store) == IF store THEN set_var(r.vars, Chars("ans"), r.val) ELSE r.vars
RECURSIVE Script(_, _, _, _, _)
Script(vs, k, upto, b, store) ==
    IF k > upto \/ Len(vs) >= MAX_VARS - Room THEN vs
    ELSE IF k = upto THEN Stored(evaluate(FillLine(k), vs, "FMT_DEC", b), store)
    ELSE Script(Script(vs, k, (k + upto) \div 2, b, store),
                (k + upto) \div 2 + 1, upto, b, store)

\* a script of assignments that leaves Room free slots, run before the session
Load(store) ==
    /\ n = 0
    /\ vars = <<>>
    /\ vars' = Script(vars, 1, MAX_VARS, build, store)
    /\ UNCHANGED <<g_output_fmt, build, input, result, out, err, obs, last, prev, n>>

SessionLines ==
    {Chars(s) : s \in {"x = 5", "x = oct(7)", "x", "x*2", "y = x", "y",
                       "ans", "ans*2", "1+1", "hex(255)", "oct(1)+bin(2)",
                       "hex(1,2)"}}

Init ==
    /\ vars = <<>>
    /\ g_output_fmt = "FMT_DEC"
    /\ build \in Builds
    /\ input = <<>>
    /\ result = Zero
    /\ out = [conv |-> "", text |-> <<>>, val |-> Zero]
    /\ err = <<>>
    /\ obs = NoObs
    /\ last = None
    /\ prev = None
    /\ n = 0

(***************************************************************************)
(* Spec: the REPL, which evaluates line after line and stores every result *)
(* under ans.                                                              *)
(***************************************************************************)
ReplSkips == {Chars(s) : s \in {"q", "quit", "exit", "help", "?"}} \cup {<<>>}
Repl == \E line \in SessionLines \ ReplSkips : n < MaxEvals /\ Run(line, TRUE)
ReplLoad == Load(TRUE)
Next == Repl \/ ReplLoad
Spec == Init /\ [][Next]_state

(***************************************************************************)
(* SpecMain: the program run with an expression on its command line: main  *)
(* evaluates it once and prints the result.  The command lines explored    *)
(* are families of expressions over small literals, short strings over an  *)
(* alphabet of the characters the grammar treats differently, function     *)
(* calls, failed operands in arithmetic, literals with a base prefix and   *)
(* identifiers around the maximum name length.                             *)
(***************************************************************************)
MaxLen == 3

Texts(S) == {Chars(t) : t \in S}
BinOps == Texts({"|", "&", "<<", ">>", "+", "-", "*", "/", "%", "^", "**"})
ArithOps == Texts({"+", "-", "*", "/", "%", "^", "**"})
UnOps == Texts({"-", "+", "~"}) \cup {<<>>}

Triples ==
    {DecText(a) \o o1 \o DecText(b) \o o2 \o DecText(c) :
        a \in 1 .. 3, b \in 0 .. 3, c \in 0 .. 2, o1 \in BinOps, o2 \in BinOps}

Unaries ==
    {u1 \o DecText(a) \o o \o u2 \o DecText(b) :
        a \in 1 .. 3, b \in 1 .. 3, o \in BinOps, u1 \in UnOps, u2 \in UnOps}
    \cup {u1 \o u2 \o DecText(a) : a \in 0 .. 2, u1 \in UnOps, u2 \in UnOps}

Grouped ==
    {<<"(">> \o DecText(a) \o o1 \o DecText(b) \o <<")">> \o o2 \o DecText(c) :
        a \in 2 .. 3, b \in 1 .. 2, c \in 1 .. 2, o1 \in BinOps, o2 \in BinOps}
    \cup
    {DecText(a) \o o1 \o <<"(">> \o DecText(b) \o o2 \o DecText(c) \o <<")">> :
        a \in 2 .. 3, b \in 1 .. 2, c \in 1 .. 2, o1 \in BinOps, o2 \in BinOps}

Examples ==
    Texts({"2^3^2", "2-3-4", "1<<2+1", "2 ** 3 ** 2", " 1 + 2 * 3 ", "-2^2",
           "2^-3^2", "(2+3)*4", "-(1+2)*3", "~(1|2)&7", "8/2/2", "7%4%2",
           "1|2&3", "16>>1>>2", "1.5*4", "1e2+.5", "0xFF & 0b1111", "0o17+1"})

Alphabet == {"1", "-", "(", ")", "<", "$", "x", "="}
\* the strings over the alphabet that open a parenthesis once at most, as
\* the examples do
Short ==
    {t \in UNION {[1 .. k -> Alphabet] : k \in 0 .. MaxLen} :
        Cardinality({i \in DOMAIN t : t[i] = "("}) <= 1}

Calls ==
    Texts({"foo(1)", "foo(1,2)", "foo (1, 2)", "sin(1,2)", "pow(2)", "pow(2,3)",
           "hex(1,2)", "hex(255)", "max(1,2)", "min(foo,1)", "f(1", "f(1,2",
           "foo()", "Sin(0)", "sin(0)", "f(1)+g(2)", "f(1,g)", "1+f(2,3)*2",
           "bxor(240,255)", "not8(240)", "clz(0)", "shl(1,64)", "abs(-3)",
           "floor(1.5)", "sqrt(4)"})

Failed == Texts({"foo", "f(1)", "f(1,2)", "()"})
Operands ==
    {f \o o \o DecText(a) : f \in Failed, o \in ArithOps, a \in 0 .. 2}
    \cup {DecText(a) \o o \o f : f \in Failed, o \in ArithOps, a \in 0 .. 2}

Prefixes == {"x", "X", "b", "B", "o", "O"}
Tails == Texts({"", "g", "+1", " 1", "-1", "8", "2", "9", "_", ")", "1", "7", "f",
                " ", "0xg", "x1", ".5", " +7", "-"})
Prefixed ==
    {<<"0", c>> \o t : c \in Prefixes, t \in Tails}
    \cup {h \o <<"0", c>> \o t : h \in Texts({"1+", "1 ", "("}), c \in Prefixes,
                                     t \in Texts({"", "g", "2", "8"})}

Long(k) == [i \in 1 .. k |-> IF i % 2 = 1 THEN "a" ELSE "b"]
LongNames ==
    {Long(k) \o t : k \in {MAX_NAME - 2, MAX_NAME - 1, MAX_NAME, MAX_NAME + 1,
                            MAX_NAME + MAX_NAME},
                    t \in Texts({"", " = 5", "=5", "(1)", "+1", "9 = 5", "_ = 5"})}

CommandLines ==
    Triples \cup Unaries \cup Grouped \cup Examples \cup Short \cup Calls
        \cup Operands \cup Prefixed \cup LongNames

InitMain ==
    /\ vars = <<>>
    /\ g_output_fmt = "FMT_DEC"
    /\ build \in Builds
    /\ input \in CommandLines
    /\ result = Zero
    /\ out = [conv |-> "", text |-> <<>>, val |-> Zero]
    /\ err = <<>>
    /\ obs = NoObs
    /\ last = None
    /\ prev = None
    /\ n = 0

Main == n = 0 /\ Run(input, FALSE)
NextMain == Main
SpecMain == InitMain /\ [][NextMain]_state

(***************************************************************************)
(* Properties of sessions.                                                 *)
(***************************************************************************)
\* the format a selector call sets, "" for any other call
SelFmt(c) ==
    IF c.args # 1 THEN ""
    ELSE CASE c.name = Chars("hex") -> "FMT_HEX"
           [] c.name = Chars("bin") -> "FMT_BIN"
           [] c.name = Chars("oct") -> "FMT_OCT"
           [] c.name = Chars("dec") -> "FMT_DEC"
           [] OTHER -> ""

\* the format of the last selector among the calls cs, Decimal if none
RECURSIVE LastSel(_)
LastSel(cs) ==
    IF cs = <<>> THEN "FMT_DEC"
    ELSE IF SelFmt(cs[Len(cs)]) # "" THEN SelFmt(cs[Len(cs)])
    ELSE LastSel(SubSeq(cs, 1, Len(cs) - 1))

\* C1: the format used to print the result of an expression is the format of
\* the last selector call executed while evaluating that expression, Decimal
\* if none was executed, whatever the earlier expressions selected; 1+1
\* prints 2 in decimal after hex(255).
C1_FormatPerExpression ==
    n > 0 => /\ g_output_fmt = LastSel(obs.calls)
             /\ out = print_result(result, LastSel(obs.calls), build)
             /\ (input = Chars("1+1") => out.conv = "%.0f" /\ out.text = <<"2">>)

\* 1+1 was printed right after hex(255) had printed 0xFF
C1_Witness ==
    /\ n >= 2
    /\ prev.input = Chars("hex(255)")
    /\ obs.fmt0 = "FMT_HEX"
    /\ input = Chars("1+1")
    /\ out.text = <<"2">>

\* the names of the table are pairwise distinct
Distinct(vs) == \A i, j \in 1 .. Len(vs) : vs[i].name = vs[j].name => i = j

\* the last two calls evaluated name = expr and then name
AssignedThenRead == n >= 2 /\ prev.lhs # <<>> /\ last.input = prev.lhs

\* C2 as stated: after any sequence of evaluations, name = expr followed by
\* name yields the value the assignment returned, and the names of the
\* table are pairwise distinct.
C2_RoundTripAlways ==
    /\ AssignedThenRead => result = prev.result
    /\ Distinct(vars)

\* C2: name = expr followed by name yields the value the assignment
\* returned when the name was already bound or the table held fewer than
\* MAX_VARS bindings; a re-assignment replaces the value; the names of the
\* table are pairwise distinct in every reachable state.
C2_RoundTrip ==
    /\ (/\ AssignedThenRead
        /\ \/ Lookup(prev.vars0, prev.lhs) > 0
           \/ var_count(prev.vars0) < MAX_VARS)
       => result = prev.result
    /\ (n >= 1 /\ last.lhs # <<>> /\ Lookup(last.vars0, last.lhs) > 0)
       => /\ var_count(vars) = var_count(last.vars0)
          /\ vars[Lookup(vars, last.lhs)].value = result
    /\ Distinct(vars)

\* x was re-assigned in a full table, then read
C2_Witness ==
    /\ AssignedThenRead
    /\ Lookup(prev.vars0, prev.lhs) > 0
    /\ var_count(prev.vars0) = MAX_VARS
    /\ prev.vars0[Lookup(prev.vars0, prev.lhs)].value # prev.result
    /\ result = prev.result
    /\ ~IsNaN(result)

\* C3: with an empty table ans resolves to 0; in the REPL, which stores each
\* result under ans, evaluating ans yields the result of the evaluation
\* before it (and ans*2 twice that result), whatever came before.
C3_Ans ==
    /\ vars = <<>> => get_var(vars, Chars("ans")) = [val |-> Zero, err |-> <<>>]
    /\ (n >= 1 /\ last.vars0 = <<>> /\ input = Chars("ans")) => result = Zero
    /\ (n >= 2 /\ input = Chars("ans")) => result = prev.result /\ err = <<>>
    /\ (n >= 2 /\ input = Chars("ans*2")) => result = FMul(prev.result, Num(2))

\* ans was read after an assignment to another name had returned 7 and an
\* earlier line had left another answer
C3_Witness ==
    /\ n >= 3
    /\ input = Chars("ans")
    /\ prev.lhs = Chars("x")
    /\ prev.result = Num(7)
    /\ result = Num(7)
    /\ vars[1].name # Chars("ans")
    /\ vars[1].value # result

\* the diagnostics the program writes, all of them from the parse
Diagnostics == {"undefined", "unknown function", "syntax error"}

\* the latest line assigned to a name that was not bound, in a full table
DroppedAssignment ==
    /\ n >= 1
    /\ last.lhs # <<>>
    /\ Lookup(last.vars0, last.lhs) = 0
    /\ var_count(last.vars0) = MAX_VARS

\* the latest line assigned to a name that was bound, in a full table
UpdateWhenFull ==
    /\ n >= 1
    /\ last.lhs # <<>>
    /\ Lookup(last.vars0, last.lhs) > 0
    /\ var_count(last.vars0) = MAX_VARS

\* C11: the table holds between 0 and MAX_VARS bindings in every reachable
\* state; across a line of the session its bindings keep their places and
\* names and none is removed; an assignment to a new name in a full table
\* adds no binding, alters no binding (the store of the answer under ans
\* apart) and writes no diagnostic of its own, while an assignment to a
\* name already bound in a full table still updates its value.
C11_Cap ==
    /\ var_count(vars) \in 0 .. MAX_VARS
    /\ n >= 1 =>
        /\ var_count(last.vars0) <= var_count(vars)
        /\ \A i \in 1 .. var_count(last.vars0) : vars[i].name = last.vars0[i].name
    /\ DroppedAssignment =>
        /\ var_count(vars) = MAX_VARS
        /\ Lookup(vars, last.lhs) = 0
        /\ \A i \in 1 .. MAX_VARS :
               vars[i].name # Chars("ans") => vars[i] = last.vars0[i]
        /\ \A i \in 1 .. Len(err) : err[i][1] \in Diagnostics
    /\ UpdateWhenFull =>
        /\ var_count(vars) = MAX_VARS
        /\ vars[Lookup(vars, last.lhs)].value = result

\* y = x ran in a full table in which x was 5: it returned 5 without a
\* diagnostic and y is still unbound
C11_Witness ==
    /\ DroppedAssignment
    /\ input = Chars("y = x")
    /\ result = Num(5)
    /\ err = <<>>
    /\ var_count(vars) = MAX_VARS
    /\ Lookup(vars, Chars("y")) = 0

\* C12: after every line of a session the first slot of the table holds
\* the answer of the latest evaluation.
C12_FirstSlot == n >= 1 => /\ var_count(vars) > 0
                           /\ vars[1].value = result

(***************************************************************************)
(* Properties of one evaluation.                                           *)
(***************************************************************************)
\* the tokens of a text, up to the first End or Error token
RECURSIVE RefScan(_)
RefScan(p) ==
    LET q == next_token(p)
    IN  IF q.cur.type \in {"END", "ERR"} THEN <<q.cur>> ELSE <<q.cur>> \o RefScan(q)

\* the precedence table: bitor < bitand < shift < additive < term < power
Prec(op) ==
    CASE op = "|" -> 1
      [] op = "&" -> 2
      [] op \in {"L", "R"} -> 3
      [] op \in {"+", "-"} -> 4
      [] op \in {"*", "/", "%"} -> 5
      [] op = "^" -> 6
      [] OTHER -> 0
RightAssoc(op) == op = "^"

RefBinary(op, l, r, b) ==
    CASE op = "|" -> FromU64(ToU64(l, b) \cup ToU64(r, b))
      [] op = "&" -> FromU64(ToU64(l, b) \cap ToU64(r, b))
      [] op = "L" -> FromU64(Shl(ToU64(l, b), ToInt(r, b), b))
      [] op = "R" -> FromU64(Shr(ToU64(l, b), ToInt(r, b), b))
      [] op = "+" -> FAdd(l, r)
      [] op = "-" -> FSub(l, r)
      [] op = "*" -> FMul(l, r)
      [] op = "/" -> FDiv(l, r)
      [] op = "%" -> FMod(l, r)
      [] op = "^" -> FPow(l, r)

RefUnary(op, v, b) ==
    CASE op = "-" -> FNeg(v)
      [] op = "+" -> v
      [] op = "~" -> FromU64(U64 \ ToU64(v, b))

\* the reference evaluator: precedence climbing over the token list ts from
\* index i, taking the operators of precedence min and above
RECURSIVE RefOperand(_, _, _), RefClimb(_, _, _, _), RefLoop(_, _, _, _)
RefOperand(ts, i, b) ==
    LET t == ts[i]
        bad == [ok |-> FALSE, v |-> NaN, i |-> i]
    IN  IF t.type = "NUM" THEN [ok |-> TRUE, v |-> t.num, i |-> i + 1]
        ELSE IF t.type = "OP" /\ t.op \in {"-", "+", "~"}
        THEN LET r == RefOperand(ts, i + 1, b)
             IN  [r EXCEPT !.v = RefUnary(t.op, r.v, b)]
        ELSE IF t.type = "LPAREN"
        THEN LET r == RefClimb(ts, i + 1, 1, b)
             IN  IF r.ok /\ ts[r.i].type = "RPAREN" THEN [r EXCEPT !.i = @ + 1] ELSE bad
        ELSE bad
RefLoop(ts, l, min, b) ==
    LET t == ts[l.i]
    IN  IF l.ok /\ t.type = "OP" /\ Prec(t.op) >= min
        THEN LET r == RefClimb(ts, l.i + 1,
                               IF RightAssoc(t.op) THEN Prec(t.op) ELSE Prec(t.op) + 1, b)
             IN  IF r.ok
                 THEN RefLoop(ts, [ok |-> TRUE, v |-> RefBinary(t.op, l.v, r.v, b),
                                   i |-> r.i], min, b)
                 ELSE r
        ELSE l
RefClimb(ts, i, min, b) == RefLoop(ts, RefOperand(ts, i, b), min, b)

\* the value of a well-formed expression over literals, ok = FALSE otherwise
Reference(text, b) ==
    LET ts == RefScan(NewParser(text, <<>>, "FMT_DEC", b))
        r == RefClimb(ts, 1, 1, b)
    IN  [ok |-> r.ok /\ ts[r.i].type = "END", v |-> r.v]

\* C4: for every well-formed expression over small non-negative integer
\* literals, evaluate returns the value of the reference evaluator that
\* climbs the precedence table bitor < bitand < shift < additive < term <
\* power, left-associative except power, with unary operators applying to
\* the following primary; 2^3^2 = 512, 2-3-4 = -5, 1<<2+1 = 8.
C4_Precedence ==
    /\ (n = 1 /\ Reference(input, build).ok)
       => result = Reference(input, build).v /\ err = <<>>
    /\ (n = 1 /\ input = Chars("2^3^2")) => result = Num(512)
    /\ (n = 1 /\ input = Chars("2-3-4")) => result = Num(-5)
    /\ (n = 1 /\ input = Chars("1<<2+1")) => result = Num(8)

\* 2 ** 3 ** 2 was evaluated to 512 as the reference does
C4_Witness ==
    /\ n = 1
    /\ input = Chars("2 ** 3 ** 2")
    /\ Reference(input, build) = [ok |-> TRUE, v |-> Num(512)]
    /\ result = Num(512)
    /\ Len(obs.ops) = 2

\* the names call_func and call_func2 dispatch on
Known1 ==
    Texts({"sin", "cos", "tan", "asin", "acos", "atan", "sinh", "cosh", "tanh", "exp",
           "log", "log10", "log2", "sqrt", "cbrt", "abs", "floor", "ceil", "round",
           "ln", "bnot", "not8", "not16", "not32", "hex", "bin", "oct", "dec",
           "toKiB", "tokib", "toMiB", "tomib", "toGiB", "togib", "toTiB", "totib",
           "toKB", "tokb", "toMB", "tomb", "toGB", "togb", "toTB", "totb",
           "popcount", "clz", "ctz"})
Known2 ==
    Texts({"bxor", "band", "bor", "shl", "shr", "pow", "mod", "atan2", "max", "min"})

\* C5: every call, with one argument or with two, of a name that is in
\* neither dispatch table reports "unknown function: <name>" and yields
\* not-a-number.
C5_UnknownFunction ==
    \A i \in 1 .. Len(obs.calls) :
        LET c == obs.calls[i]
        IN  c.name \notin Known1 \cup Known2
            => /\ c.err = <<<<"unknown function", c.name>>>>
               /\ IsNaN(c.val)

\* C6: an arithmetic operator (+, -, *, /, %, ^ or **) applied to a
\* not-a-number operand yields not-a-number.
C6_NaNPropagates ==
    \A i \in 1 .. Len(obs.ops) :
        LET o == obs.ops[i]
        IN  (IsNaN(o.l) \/ IsNaN(o.r)) => IsNaN(o.v)

C8_ErrorsReportedAndSkipped ==
    n = 1 =>
        /\ \A k \in 1 .. Len(input) :
               input[k] = "$" => \E i \in 1 .. Len(obs.toks) :
                                     obs.toks[i].type = "ERR" /\ obs.toks[i].start = k
        /\ \A i \in 1 .. Len(obs.toks) :
               obs.toks[i].type = "ERR" => err # <<>> /\ i < Len(obs.toks)

\* the text at offset i has no digit of the base
NoDigit(text, i, base) == DigitVal(At(text, i)) >= base

\* strtoull at offset i converts nothing: after white space and a sign
\* there is no digit of the base
NoConversion(text, i, base) ==
    LET j == SkipSpace(text, i)
        k == IF At(text, j) \in {"+", "-"} THEN j + 1 ELSE j
    IN  NoDigit(text, k, base)

PrefixBase(c) == IF c \in {"x", "X"} THEN 16 ELSE IF c \in {"b", "B"} THEN 2 ELSE 8

\* the token t was lexed at a 0 followed by a prefix letter
AtPrefix(t) == At(input, t.start) = "0" /\ At(input, t.start + 1) \in Prefixes

\* C9 as stated: at a prefix followed by no digit valid for the base the
\* lexer produces a Number token of value 0 for the leading 0, leaving the
\* prefix letter to the next token, and never an Error token.
C9_FallThrough ==
    \A i \in 1 .. Len(obs.toks) :
        LET t == obs.toks[i]
        IN  (/\ AtPrefix(t)
             /\ NoDigit(input, t.start + 2, PrefixBase(At(input, t.start + 1))))
            => t.type = "NUM" /\ t.num = Zero /\ t.end = t.start + 1

\* C9: at a hexadecimal or octal prefix after which strtoull converts
\* nothing the lexer produces an Error token that consumes the leading 0
\* alone; at a binary prefix followed by no binary digit it produces a
\* Number token of value 0 that consumes the 0 and the prefix letter.
C9_PrefixWithoutDigits ==
    \A i \in 1 .. Len(obs.toks) :
        LET t == obs.toks[i]
            base == PrefixBase(At(input, t.start + 1))
        IN  AtPrefix(t) =>
            /\ (base # 2 /\ NoConversion(input, t.start + 2, base))
               => t.type = "ERR" /\ t.end = t.start + 1
            /\ (base = 2 /\ NoDigit(input, t.start + 2, base))
               => t.type = "NUM" /\ t.num = Zero /\ t.end = t.start + 2

\* 1+0xg was lexed up to an Error token at the 0
C9_Witness ==
    /\ n = 1
    /\ input = Chars("1+0xg")
    /\ Len(obs.toks) = 3
    /\ obs.toks[3].type = "ERR"
    /\ obs.toks[3].start = 3
    /\ obs.toks[3].end = 4
    /\ IsNaN(result)

\* the length of the run of identifier characters the text begins with
NameRun(text) ==
    IF isalpha(At(text, 1)) \/ At(text, 1) = "_" THEN SkipIdent(text, 1) - 1 ELSE 0

\* C10: a run of identifier characters longer than MAX_NAME - 1 yields one
\* Identifier token named by its first MAX_NAME - 1 characters; the excess
\* is discarded and is no further token, so a long name followed by = 5 is
\* an assignment.
C10_Truncation ==
    (n = 1 /\ NameRun(input) > MAX_NAME - 1) =>
        LET run == NameRun(input)
            t == obs.toks[1]
        IN  /\ t.type = "ID"
            /\ t.id = SubSeq(input, 1, MAX_NAME - 1)
            /\ \A i \in 2 .. Len(obs.toks) : obs.toks[i].start > run
            /\ SubSeq(input, run + 1, Len(input)) = Chars(" = 5")
               => /\ last.lhs = t.id
                  /\ result = Num(5)
                  /\ err = <<>>
====
